---- MODULE Spec2Model ----
(***************************************************************************)
(* Model of the feather HTTP dispatcher (src/feather.go) and of the        *)
(* middleware helpers of its Context (Set, Get, Abort, Post).              *)
(*                                                                         *)
(* Strings are sequences of one-character strings, so that splitting,      *)
(* escaping and matching are computed character by character.              *)
(***************************************************************************)
EXTENDS Integers, Sequences, FiniteSets, TLC

(***************************************************************************)
(* Bounds of the model.                                                    *)
(***************************************************************************)
MaxHandle == 2
MaxAddMiddleware == 2

(***************************************************************************)
(* String helpers: strings.Split, strings.Join, regexp.QuoteMeta.          *)
(***************************************************************************)
RECURSIVE SplitFrom(_, _, _)
SplitFrom(s, sep, cur) ==
    IF s = << >> THEN << cur >>
    ELSE IF Head(s) = sep THEN << cur >> \o SplitFrom(Tail(s), sep, << >>)
    ELSE SplitFrom(Tail(s), sep, Append(cur, Head(s)))

Split(s, sep) == SplitFrom(s, sep, << >>)

RECURSIVE Join(_, _)
Join(parts, sep) ==
    IF parts = << >> THEN << >>
    ELSE IF Len(parts) = 1 THEN parts[1]
    ELSE parts[1] \o << sep >> \o Join(Tail(parts), sep)

SpecialChars == {"\\", ".", "+", "*", "?", "(", ")", "|", "[", "]", "{", "}", "^", "$"}

RECURSIVE QuoteMeta(_)
QuoteMeta(s) ==
    IF s = << >> THEN << >>
    ELSE IF Head(s) \in SpecialChars
         THEN << "\\", Head(s) >> \o QuoteMeta(Tail(s))
         ELSE << Head(s) >> \o QuoteMeta(Tail(s))

(***************************************************************************)
(* The regular expressions the routes use.  The expression is lexed into   *)
(* tokens: literal, character class, any character, group open and close   *)
(* (numbered by their opening parenthesis, left to right), the repetition  *)
(* "+" and the anchors.  Lexing fails where regexp.Compile fails: an       *)
(* unbalanced parenthesis, an unclosed class, a trailing backslash, a      *)
(* repetition with nothing to repeat.                                      *)
(***************************************************************************)
Alphabet ==
    << "$", "(", ")", "*", "+", "-", ".", "/", "0", "1", "2", "3", "4", "5",
       "6", "7", "8", "9", ":", "?", "[", "\\", "]", "^", "a", "b", "c", "d",
       "e", "f", "g", "h", "i", "j", "k", "l", "m", "n", "o", "p", "q", "r",
       "s", "t", "u", "v", "w", "x", "y", "z", "{", "|", "}" >>

Ord(c) == CHOOSE n \in 1..Len(Alphabet) : Alphabet[n] = c

Tok(k, c, neg, items, g) == [k |-> k, c |-> c, neg |-> neg, items |-> items, g |-> g]

LexError == [err |-> TRUE, toks |-> << >>]

Cons(t, rest) ==
    IF rest.err THEN LexError ELSE [err |-> FALSE, toks |-> << t >> \o rest.toks]

\* position of the "]" that closes the class opened at i, 0 if there is none
RECURSIVE ClassEnd(_, _)
ClassEnd(re, k) ==
    IF k > Len(re) THEN 0
    ELSE IF re[k] = "]" THEN k
    ELSE ClassEnd(re, k + 1)

\* the characters a class body denotes: single characters and ranges x-y
RECURSIVE ClassItems(_)
ClassItems(body) ==
    IF body = << >> THEN {}
    ELSE IF Len(body) >= 3 /\ body[2] = "-"
         THEN {Alphabet[n] : n \in Ord(body[1])..Ord(body[3])}
              \cup ClassItems(SubSeq(body, 4, Len(body)))
         ELSE {body[1]} \cup ClassItems(Tail(body))

ClassTok(body) ==
    IF body # << >> /\ body[1] = "^"
    THEN Tok("class", "", TRUE, ClassItems(Tail(body)), 0)
    ELSE Tok("class", "", FALSE, ClassItems(body), 0)

RECURSIVE Lex(_, _, _, _, _)
Lex(re, i, ng, stack, prev) ==
    IF i > Len(re) THEN [err |-> stack # << >>, toks |-> << >>]
    ELSE LET c == re[i] IN
      CASE c = "\\" ->
             IF i + 1 > Len(re) THEN LexError
             ELSE Cons(Tok("lit", re[i + 1], FALSE, {}, 0),
                       Lex(re, i + 2, ng, stack, "atom"))
        [] c = "[" ->
             LET first == IF i + 1 <= Len(re) /\ re[i + 1] = "^" THEN i + 2 ELSE i + 1
                 e == ClassEnd(re, first + 1)
             IN IF e = 0 THEN LexError
                ELSE Cons(ClassTok(SubSeq(re, i + 1, e - 1)),
                          Lex(re, e + 1, ng, stack, "atom"))
        [] c = "(" ->
             Cons(Tok("open", "", FALSE, {}, ng + 1),
                  Lex(re, i + 1, ng + 1, << ng + 1 >> \o stack, "open"))
        [] c = ")" ->
             IF stack = << >> THEN LexError
             ELSE Cons(Tok("close", "", FALSE, {}, Head(stack)),
                       Lex(re, i + 1, ng, Tail(stack), "atom"))
        [] c = "+" ->
             IF prev \in {"start", "open", "plus"} THEN LexError
             ELSE Cons(Tok("plus", "", FALSE, {}, 0),
                       Lex(re, i + 1, ng, stack, "plus"))
        [] c = "^" -> Cons(Tok("bol", "", FALSE, {}, 0), Lex(re, i + 1, ng, stack, "atom"))
        [] c = "$" -> Cons(Tok("eol", "", FALSE, {}, 0), Lex(re, i + 1, ng, stack, "atom"))
        [] c = "." -> Cons(Tok("any", "", FALSE, {}, 0), Lex(re, i + 1, ng, stack, "atom"))
        [] OTHER -> Cons(Tok("lit", c, FALSE, {}, 0), Lex(re, i + 1, ng, stack, "atom"))

\* regexp.Compile: the token list, or an error
RegexpCompile(re) == Lex(re, 1, 0, << >>, "start")

NumSubexp(toks) == Cardinality({i \in 1..Len(toks) : toks[i].k = "open"})

OpenIdx(toks, g) == CHOOSE i \in 1..Len(toks) : toks[i].k = "open" /\ toks[i].g = g

AtomOK(t, ch) ==
    CASE t.k = "lit" -> ch = t.c
      [] t.k = "any" -> TRUE
      [] t.k = "class" -> IF t.neg THEN ch \notin t.items ELSE ch \in t.items
      [] OTHER -> FALSE

NoMatch == [ok |-> FALSE, caps |-> << >>, e |-> 0]

IsPlus(toks, i) == i <= Len(toks) /\ toks[i].k = "plus"

(***************************************************************************)
(* Backtracking match from token i at position j of s.  caps[g] is the     *)
(* span <<begin, end>> of group g, <<0, 0>> while unset.  The first        *)
(* success in priority order is the leftmost-first match of Go's regexp:   *)
(* a repetition prefers one more iteration.                                *)
(***************************************************************************)
RECURSIVE MatchAt(_, _, _, _, _)
MatchAt(toks, i, s, j, caps) ==
    IF i > Len(toks) THEN [ok |-> TRUE, caps |-> caps, e |-> j]
    ELSE LET t == toks[i] IN
      CASE t.k = "bol" -> IF j = 1 THEN MatchAt(toks, i + 1, s, j, caps) ELSE NoMatch
        [] t.k = "eol" -> IF j = Len(s) + 1 THEN MatchAt(toks, i + 1, s, j, caps) ELSE NoMatch
        [] t.k = "open" ->
             MatchAt(toks, i + 1, s, j, [caps EXCEPT ![t.g] = << j, 0 >>])
        [] t.k = "close" ->
             LET caps2 == [caps EXCEPT ![t.g] = << caps[t.g][1], j >>] IN
             IF IsPlus(toks, i + 1)
             THEN LET again == IF j > caps[t.g][1]
                               THEN MatchAt(toks, OpenIdx(toks, t.g), s, j, caps2)
                               ELSE NoMatch
                  IN IF again.ok THEN again ELSE MatchAt(toks, i + 2, s, j, caps2)
             ELSE MatchAt(toks, i + 1, s, j, caps2)
        [] t.k = "plus" -> NoMatch
        [] OTHER ->
             IF j <= Len(s) /\ AtomOK(t, s[j])
             THEN IF IsPlus(toks, i + 1)
                  THEN LET again == MatchAt(toks, i, s, j + 1, caps)
                       IN IF again.ok THEN again ELSE MatchAt(toks, i + 2, s, j + 1, caps)
                  ELSE MatchAt(toks, i + 1, s, j + 1, caps)
             ELSE NoMatch

\* the text of a group: empty when the group did not take part in the match
GroupText(s, span) ==
    IF span[2] = 0 THEN << >> ELSE SubSeq(s, span[1], span[2] - 1)

RECURSIVE FindFrom(_, _, _)
FindFrom(toks, s, start) ==
    IF start > Len(s) + 1 THEN << >>
    ELSE LET n == NumSubexp(toks)
             r == MatchAt(toks, 1, s, start, [g \in 1..n |-> << 0, 0 >>])
         IN IF r.ok
            THEN << SubSeq(s, start, r.e - 1) >>
                 \o [g \in 1..n |-> GroupText(s, r.caps[g])]
            ELSE FindFrom(toks, s, start + 1)

\* Regexp.FindStringSubmatch: << >> when nothing matches, otherwise the
\* whole match followed by the text of every group
FindStringSubmatch(re, s) == FindFrom(RegexpCompile(re).toks, s, 1)

(***************************************************************************)
(* Pattern compilation, the first half of Server.Handle.                   *)
(***************************************************************************)
\* one pass of the loop over the fragments of the pattern: the regex
\* fragments, the parameter names, and whether parts[0][1:] panicked
\* faulty variant: the regex of a :name|regex fragment is ignored
RECURSIVE CompileFragments_DefaultOnly(_, _, _)
CompileFragments_DefaultOnly(frags, fragmentRegex, paramsList) ==
    IF frags = << >>
    THEN [fragmentRegex |-> fragmentRegex, paramsList |-> paramsList, panic |-> FALSE]
    ELSE LET fragment == Head(frags)
             parts == Split(fragment, "|")
         IN IF Len(fragment) <= 0
            THEN CompileFragments_DefaultOnly(Tail(frags), fragmentRegex, paramsList)
            ELSE IF fragment[1] = ":"
            THEN CompileFragments_DefaultOnly(Tail(frags),
                     Append(fragmentRegex, << "(", "[", "^", "/", "]", "+", ")" >>),
                     Append(paramsList, Tail(parts[1])))
            ELSE CompileFragments_DefaultOnly(Tail(frags),
                     Append(fragmentRegex, QuoteMeta(fragment)), paramsList)

\* faulty variant: an empty fragment is kept as an empty literal
RECURSIVE CompileFragments_KeepEmpty(_, _, _)
CompileFragments_KeepEmpty(frags, fragmentRegex, paramsList) ==
    IF frags = << >>
    THEN [fragmentRegex |-> fragmentRegex, paramsList |-> paramsList, panic |-> FALSE]
    ELSE LET fragment == Head(frags)
             parts == Split(fragment, "|")
         IN IF Len(fragment) <= 0
            THEN CompileFragments_KeepEmpty(Tail(frags), Append(fragmentRegex, << >>),
                                            paramsList)
            ELSE IF Len(parts) = 1 /\ fragment[1] = ":"
            THEN CompileFragments_KeepEmpty(Tail(frags),
                     Append(fragmentRegex, << "(", "[", "^", "/", "]", "+", ")" >>),
                     Append(paramsList, Tail(parts[1])))
            ELSE IF Len(parts) = 2
            THEN IF parts[1] = << >>
                 THEN [fragmentRegex |-> fragmentRegex, paramsList |-> paramsList,
                       panic |-> TRUE]
                 ELSE CompileFragments_KeepEmpty(Tail(frags),
                          Append(fragmentRegex, << "(" >> \o parts[2] \o << ")" >>),
                          Append(paramsList, Tail(parts[1])))
            ELSE CompileFragments_KeepEmpty(Tail(frags),
                     Append(fragmentRegex, QuoteMeta(fragment)), paramsList)

RECURSIVE CompileFragments(_, _, _)
CompileFragments(frags, fragmentRegex, paramsList) ==
    IF frags = << >>
    THEN [fragmentRegex |-> fragmentRegex, paramsList |-> paramsList, panic |-> FALSE]
    ELSE LET fragment == Head(frags)
             parts == Split(fragment, "|")
         IN IF Len(fragment) <= 0
            THEN CompileFragments(Tail(frags), fragmentRegex, paramsList)
            ELSE IF Len(parts) = 1 /\ fragment[1] = ":"
            THEN CompileFragments(Tail(frags),
                     Append(fragmentRegex, << "(", "[", "^", "/", "]", "+", ")" >>),
                     Append(paramsList, Tail(parts[1])))
            ELSE IF Len(parts) = 2
            THEN IF parts[1] = << >>
                 THEN [fragmentRegex |-> fragmentRegex, paramsList |-> paramsList,
                       panic |-> TRUE]
                 ELSE CompileFragments(Tail(frags),
                          Append(fragmentRegex, << "(" >> \o parts[2] \o << ")" >>),
                          Append(paramsList, Tail(parts[1])))
            ELSE CompileFragments(Tail(frags),
                     Append(fragmentRegex, QuoteMeta(fragment)), paramsList)

\* faulty variant: the expression is not anchored at the end
RegexPattern_Unanchored(pattern) ==
    << "^", "/" >>
    \o Join(CompileFragments(Split(pattern, "/"), << >>, << >>).fragmentRegex, "/")

\* faulty variant: the expression is not anchored at the start
RegexPattern_NoStart(pattern) ==
    << "/" >>
    \o Join(CompileFragments(Split(pattern, "/"), << >>, << >>).fragmentRegex, "/")
    \o << "$" >>

RegexPattern(pattern) ==
    << "^", "/" >>
    \o Join(CompileFragments(Split(pattern, "/"), << >>, << >>).fragmentRegex, "/")
    \o << "$" >>

ParamsList(pattern) == CompileFragments(Split(pattern, "/"), << >>, << >>).paramsList

PatternPanics(pattern) == CompileFragments(Split(pattern, "/"), << >>, << >>).panic

Route(pattern, handler) ==
    [Regex |-> RegexPattern(pattern), Params |-> ParamsList(pattern), Handler |-> handler]

\* faulty variant: a route equal to one already in the list is not appended
RECURSIVE RegisterAll_Dedup(_, _, _)
RegisterAll_Dedup(routes, route, methods) ==
    IF methods = << >> THEN routes
    ELSE LET method == Head(methods)
             old == IF method \in DOMAIN routes THEN routes[method] ELSE << >>
             new == IF \E i \in 1..Len(old) : old[i] = route THEN old ELSE Append(old, route)
         IN RegisterAll_Dedup((method :> new) @@ routes, route, Tail(methods))

\* faulty variant: the route is put in front of the list
RECURSIVE RegisterAll_Prepend(_, _, _)
RegisterAll_Prepend(routes, route, methods) ==
    IF methods = << >> THEN routes
    ELSE LET method == Head(methods)
             old == IF method \in DOMAIN routes THEN routes[method] ELSE << >>
         IN RegisterAll_Prepend((method :> (<< route >> \o old)) @@ routes, route,
                                Tail(methods))

\* the loop over the methods: append the route to the list of each method
RECURSIVE RegisterAll(_, _, _)
RegisterAll(routes, route, methods) ==
    IF methods = << >> THEN routes
    ELSE LET method == Head(methods)
             old == IF method \in DOMAIN routes THEN routes[method] ELSE << >>
         IN RegisterAll((method :> Append(old, route)) @@ routes, route, Tail(methods))

\* faulty variant: no default for an empty methods list
DefaultMethods_AsGiven(methods) == methods

DefaultMethods(methods) == IF Len(methods) = 0 THEN << "GET" >> ELSE methods

(***************************************************************************)
(* Route matching, the first half of Server.ServeHTTP.                     *)
(***************************************************************************)
\* faulty variant: the last matching route wins
RECURSIVE FirstMatch_Last(_, _, _)
FirstMatch_Last(routes, path, i) ==
    IF i > Len(routes) THEN 0
    ELSE LET later == FirstMatch_Last(routes, path, i + 1) IN
         IF later # 0 THEN later
         ELSE IF Len(FindStringSubmatch(routes[i].Regex, path)) # 0 THEN i
         ELSE 0

\* index of the first route of the list that matches the path, 0 if none
RECURSIVE FirstMatch(_, _, _)
FirstMatch(routes, path, i) ==
    IF i > Len(routes) THEN 0
    ELSE IF Len(FindStringSubmatch(routes[i].Regex, path)) # 0 THEN i
    ELSE FirstMatch(routes, path, i + 1)

\* the loop over route.Params: params[paramName] = matches[j + 1]
RECURSIVE BindParams(_, _, _, _)
BindParams(params, names, matches, j) ==
    IF j > Len(names) THEN params
    ELSE BindParams((names[j] :> matches[j + 1]) @@ params, names, matches, j + 1)

EmptyMap == [k \in {} |-> << >>]

MatchParams(route, path) ==
    BindParams(EmptyMap, route.Params, FindStringSubmatch(route.Regex, path), 1)

(***************************************************************************)
(* The Context and its helpers for middlewares.  A value of the Data map   *)
(* (type any) carries its dynamic type in t.                               *)
(***************************************************************************)
NilV == [t |-> "nil", b |-> FALSE, fns |-> << >>, s |-> ""]
BoolV(b) == [t |-> "bool", b |-> b, fns |-> << >>, s |-> ""]
FuncsV(fns) == [t |-> "funcs", b |-> FALSE, fns |-> fns, s |-> ""]
StrV(s) == [t |-> "string", b |-> FALSE, fns |-> << >>, s |-> s]

\* http.ResponseWriter.WriteHeader: the first status code written is the
\* response's, a later call is superfluous and ignored
WriteHeader(status, code) == IF status = 0 THEN code ELSE status

\* Context.Get: the value of the key, nil when the key is absent
Get(c, key) == IF key \in DOMAIN c.Data THEN c.Data[key] ELSE NilV

\* faulty variant: a key that has a value keeps it
Set_KeepsOld(c, key, value) == [c EXCEPT !.Data = c.Data @@ (key :> value)]

\* Context.Set
Set(c, key, value) == [c EXCEPT !.Data = (key :> value) @@ c.Data]

\* Context.Abort
Abort(c) == [c EXCEPT !.Data = ("Abort" :> BoolV(TRUE)) @@ c.Data]

\* faulty variant: the hook is put in front of the list
Post_Prepend(c, function) ==
    LET postMw == Get(c, "PostFunc") IN
    IF postMw.t = "funcs"
    THEN [c EXCEPT !.Data = ("PostFunc" :> FuncsV(<< function >> \o postMw.fns)) @@ c.Data]
    ELSE [c EXCEPT !.panic = TRUE]

\* Context.Post: the type assertion postMw.([]HandlerFunc) panics when the
\* entry is not a list of handler functions
Post(c, function) ==
    LET postMw == Get(c, "PostFunc") IN
    IF postMw.t = "funcs"
    THEN [c EXCEPT !.Data = ("PostFunc" :> FuncsV(Append(postMw.fns, function))) @@ c.Data]
    ELSE [c EXCEPT !.panic = TRUE]

\* faulty variant: a recorder keeps the status it started with
Status_RecorderKeepsFirst(c, code) == [c EXCEPT !.status = WriteHeader(c.status, code)]

\* Context.Status: WriteHeader on the writer of the Context; every
\* responseRecorder wrapped around the writer records the code and passes
\* it on
Status(c, code) ==
    [c EXCEPT !.status = WriteHeader(c.status, code),
              !.recorders = [i \in DOMAIN c.recorders |-> code]]

\* the post-hook of the k-th Logging call of the request
LoglineOf(k) == CASE k = 1 -> "logline1" [] k = 2 -> "logline2" [] OTHER -> "logline3"

\* middlewares.Logging: a recorder with status 200 around the writer, and a
\* post-hook that prints the status of this recorder
Logging(c) ==
    Post([c EXCEPT !.recorders = Append(c.recorders, 200)],
         LoglineOf(Len(c.recorders) + 1))

\* faulty variant: the preflight answer also aborts the chain
CORS_AbortsOnOptions(c) == IF c.Method = "OPTIONS" THEN Abort(Status(c, 200)) ELSE c

\* the function returned by middlewares.CORS: the headers it sets are not
\* part of the model; on OPTIONS it writes status 200 and returns
CORS(c) == IF c.Method = "OPTIONS" THEN Status(c, 200) ELSE c

(***************************************************************************)
(* The handler functions of the application: route handlers, middlewares   *)
(* and post-hooks share the type HandlerFunc.  The body of a function is   *)
(* the list of Context calls it makes.                                     *)
(***************************************************************************)
OpAbort == [op |-> "Abort", fn |-> "", key |-> "", val |-> NilV, code |-> 0]
OpPost(fn) == [op |-> "Post", fn |-> fn, key |-> "", val |-> NilV, code |-> 0]
OpSet(key, val) == [op |-> "Set", fn |-> "", key |-> key, val |-> val, code |-> 0]
OpStatus(code) == [op |-> "Status", fn |-> "", key |-> "", val |-> NilV, code |-> code]
OpGet(key) == [op |-> "Get", fn |-> "", key |-> key, val |-> NilV, code |-> 0]
OpLogging == [op |-> "Logging", fn |-> "", key |-> "", val |-> NilV, code |-> 0]
OpReport(k) == [op |-> "Report", fn |-> "", key |-> "", val |-> NilV, code |-> k]
OpCORS == [op |-> "CORS", fn |-> "", key |-> "", val |-> NilV, code |-> 0]

Body(fn) ==
    CASE fn = "home" -> << OpStatus(200) >>
      [] fn = "show" -> << OpPost("audit"), OpStatus(201) >>
      [] fn = "timer" -> << OpSet("start", StrV("t0")), OpPost("report") >>
      [] fn = "auth" -> << OpStatus(401), OpAbort >>
      [] fn = "guard" -> << OpPost("cleanup"), OpAbort >>
      [] fn = "report" -> << OpGet("start") >>
      [] fn = "audit" -> << >>
      [] fn = "cleanup" -> << OpPost("audit") >>
      [] fn = "toggle" -> << OpAbort, OpSet("Abort", BoolV(FALSE)) >>
      [] fn = "sentry" -> << OpPost("clear"), OpAbort >>
      [] fn = "clear" -> << OpSet("Abort", BoolV(FALSE)) >>
      [] fn = "stamp" -> << OpGet("start"), OpSet("start", StrV("t1")) >>
      [] fn = "read" -> << OpGet("start"), OpGet("missing"), OpGet("Abort"), OpStatus(200) >>
      [] fn = "clobber" -> << OpSet("PostFunc", StrV("x")) >>
      [] fn = "looper" -> << OpPost("again") >>
      [] fn = "again" -> << OpPost("again") >>
      [] fn = "quiet" -> << >>
      [] fn = "Logging" -> << OpLogging >>
      [] fn = "logline1" -> << OpReport(1) >>
      [] fn = "logline2" -> << OpReport(2) >>
      [] fn = "logline3" -> << OpReport(3) >>
      [] fn = "CORS" -> << OpCORS >>
      [] OTHER -> << >>

MiddlewareLists == {<< "timer" >>, << "auth" >>, << "timer", "guard" >>}

\* posted and aborted record the Post and Abort calls the function made, got
\* the results of its Get calls, wrote the status codes it wrote, reported
\* the status a Logging hook printed
RECURSIVE Run(_, _)
Run(ops, c) ==
    IF ops = << >> \/ c.panic THEN c
    ELSE LET o == Head(ops) IN
         Run(Tail(ops),
             CASE o.op = "Abort" -> [Abort(c) EXCEPT !.aborted = TRUE]
               [] o.op = "Post" -> [Post(c, o.fn) EXCEPT !.posted = Append(c.posted, o.fn)]
               [] o.op = "Set" -> Set(c, o.key, o.val)
               [] o.op = "Status" -> [Status(c, o.code) EXCEPT !.wrote = Append(c.wrote, o.code)]
               [] o.op = "Get" ->
                    [c EXCEPT !.got = Append(c.got, [key |-> o.key, val |-> Get(c, o.key)])]
               [] o.op = "Logging" ->
                    [Logging(c) EXCEPT !.posted = Append(c.posted,
                                                          LoglineOf(Len(c.recorders) + 1))]
               [] o.op = "Report" ->
                    [c EXCEPT !.reported = Append(c.reported, c.recorders[o.code])]
               [] o.op = "CORS" ->
                    [CORS(c) EXCEPT !.wrote = IF c.Method = "OPTIONS"
                                              THEN Append(c.wrote, 200) ELSE c.wrote]
               [] OTHER -> c)

\* calling the function fn with the context c
Call(fn, c) == Run(Body(fn), c)

(***************************************************************************)
(* State.                                                                  *)
(*   Routes          Server.Routes: method -> list of routes; its domain   *)
(*                   is the set of keys of the Go map                      *)
(*   Middlewares     Server.Middlewares                                    *)
(*   phase           "setup" until Listen, "listening" after it, "exited"  *)
(*                   once Handle has stopped the process                   *)
(*   nHandle, nAddMiddleware   number of calls made so far                 *)
(*   handleCalls     arguments of the Handle calls made so far             *)
(*   addCalls        arguments of the AddMiddleware calls made so far      *)
(*   rq              per request: position in ServeHTTP, the Context, the  *)
(*                   writer's status and the log of the functions called   *)
(***************************************************************************)
VARIABLES Routes, Middlewares, phase, nHandle, nAddMiddleware, handleCalls,
          addCalls, rq

vars == << Routes, Middlewares, phase, nHandle, nAddMiddleware, handleCalls,
          addCalls, rq >>

Requests == {"r1"}

NoRoutes == [m \in {} |-> << >>]
NoData == [k \in {} |-> NilV]

Idle ==
    [pc |-> "idle", method |-> "", path |-> << >>, status |-> 0, index |-> 0,
     hasCtx |-> FALSE, Data |-> NoData, Params |-> EmptyMap, recorders |-> << >>,
     mwi |-> 0,
     postFuncs |-> << >>, posti |-> 0, log |-> << >>]

Init ==
    /\ Routes = NoRoutes
    /\ Middlewares = << >>
    /\ phase = "setup"
    /\ nHandle = 0
    /\ nAddMiddleware = 0
    /\ handleCalls = << >>
    /\ addCalls = << >>
    /\ rq = [r \in Requests |-> Idle]

(***************************************************************************)
(* Registration.  Routes and middlewares are registered before Listen,     *)
(* which blocks for the rest of the process: requests are served only      *)
(* after it, and the two tables no longer change.                          *)
(***************************************************************************)
\* faulty variant: the new middlewares are put in front of the list
AddMiddleware_Prepend(middlewares) ==
    /\ phase = "setup"
    /\ nAddMiddleware < MaxAddMiddleware
    /\ nAddMiddleware' = nAddMiddleware + 1
    /\ addCalls' = Append(addCalls, middlewares)
    /\ Middlewares' = middlewares \o Middlewares
    /\ UNCHANGED << Routes, phase, nHandle, handleCalls, rq >>

\* faulty variant: a middleware added after a route was registered is not
\* attached to the server
AddMiddleware_BeforeRoutesOnly(middlewares) ==
    /\ phase = "setup"
    /\ nAddMiddleware < MaxAddMiddleware
    /\ nAddMiddleware' = nAddMiddleware + 1
    /\ addCalls' = Append(addCalls, middlewares)
    /\ Middlewares' = IF DOMAIN Routes = {} THEN Middlewares \o middlewares ELSE Middlewares
    /\ UNCHANGED << Routes, phase, nHandle, handleCalls, rq >>

AddMiddleware(middlewares) ==
    /\ phase = "setup"
    /\ nAddMiddleware < MaxAddMiddleware
    /\ nAddMiddleware' = nAddMiddleware + 1
    /\ addCalls' = Append(addCalls, middlewares)
    /\ Middlewares' = Middlewares \o middlewares
    /\ UNCHANGED << Routes, phase, nHandle, handleCalls, rq >>

\* faulty variant: a pattern that does not compile is skipped and the
\* process goes on
Handle_SkipBroken(pattern, handler, methods) ==
    /\ phase = "setup"
    /\ nHandle < MaxHandle
    /\ nHandle' = nHandle + 1
    /\ handleCalls' = Append(handleCalls, [pattern |-> pattern, handler |-> handler,
                                            methods |-> methods])
    /\ IF PatternPanics(pattern) \/ RegexpCompile(RegexPattern(pattern)).err
       THEN UNCHANGED << Routes, phase >>
       ELSE /\ Routes' = RegisterAll(Routes, Route(pattern, handler), DefaultMethods(methods))
            /\ UNCHANGED phase
    /\ UNCHANGED << Middlewares, nAddMiddleware, addCalls, rq >>

\* a panic in the pattern loop and a regular expression that does not
\* compile both end the process before any route is appended
Handle(pattern, handler, methods) ==
    /\ phase = "setup"
    /\ nHandle < MaxHandle
    /\ nHandle' = nHandle + 1
    /\ handleCalls' = Append(handleCalls, [pattern |-> pattern, handler |-> handler,
                                            methods |-> methods])
    /\ IF PatternPanics(pattern) \/ RegexpCompile(RegexPattern(pattern)).err
       THEN /\ phase' = "exited"
            /\ UNCHANGED Routes
       ELSE /\ Routes' = RegisterAll(Routes, Route(pattern, handler), DefaultMethods(methods))
            /\ UNCHANGED phase
    /\ UNCHANGED << Middlewares, nAddMiddleware, addCalls, rq >>

\* the verb shorthands
GET(pattern, handler) == Handle(pattern, handler, << "GET" >>)

\* faulty variant: POST registers under GET
POST_UnderGET(pattern, handler) == Handle(pattern, handler, << "GET" >>)

POST(pattern, handler) == Handle(pattern, handler, << "POST" >>)

PUT(pattern, handler) == Handle(pattern, handler, << "PUT" >>)

PATCH(pattern, handler) == Handle(pattern, handler, << "PATCH" >>)

DELETE(pattern, handler) == Handle(pattern, handler, << "DELETE" >>)

Listen ==
    /\ phase = "setup"
    /\ phase' = "listening"
    /\ UNCHANGED << Routes, Middlewares, nHandle, nAddMiddleware, handleCalls, addCalls, rq >>

(***************************************************************************)
(* Server.ServeHTTP, in steps: the route lookup up to the construction of  *)
(* the Context, one step per middleware, the handler, one step per         *)
(* post-hook.                                                              *)
(***************************************************************************)
\* the log entry of a call: the function, its role, the hooks the call
\* passed to Post and whether it called Abort
Invoke(q, role, fn) ==
    LET c == Call(fn, [Method |-> q.method, Data |-> q.Data, Params |-> q.Params,
                       status |-> q.status,
                       recorders |-> q.recorders, panic |-> FALSE, posted |-> << >>,
                       aborted |-> FALSE, got |-> << >>, wrote |-> << >>,
                       reported |-> << >>])
        entry == [role |-> role, fn |-> fn, posted |-> c.posted, abort |-> c.aborted,
                  got |-> c.got, wrote |-> c.wrote, reported |-> c.reported]
    IN [q EXCEPT !.Data = c.Data, !.status = c.status, !.recorders = c.recorders,
                 !.log = Append(q.log, entry),
                 !.pc = IF c.panic THEN "panicked" ELSE q.pc]

\* faulty variant: a method without routes is treated as an empty list
RoutesFor_AnyMethodOk(table, method) ==
    [ok |-> TRUE, routes |-> IF method \in DOMAIN table THEN table[method] ELSE << >>]

RECURSIVE RoutesOf(_, _)
RoutesOf(table, methods) ==
    IF methods = {} THEN << >>
    ELSE LET m == CHOOSE x \in methods : TRUE
         IN table[m] \o RoutesOf(table, methods \ {m})

\* faulty variant: the routes of the other methods are candidates too
RoutesFor_AllMethods(table, method) ==
    [ok |-> method \in DOMAIN table,
     routes |-> IF method \in DOMAIN table
                THEN table[method] \o RoutesOf(table, DOMAIN table \ {method})
                ELSE << >>]

\* routes, ok := server.Routes[reader.Method]
RoutesFor(table, method) ==
    [ok |-> method \in DOMAIN table,
     routes |-> IF method \in DOMAIN table THEN table[method] ELSE << >>]

\* faulty variant: the Context starts with the abort flag set
NewContextData_Aborted == ("Abort" :> BoolV(TRUE)) @@ ("PostFunc" :> FuncsV(<< >>))

\* the Data map of a new Context: make(map[string]any), then the entries
\* "PostFunc" and "Abort"
NewContextData == ("Abort" :> BoolV(FALSE)) @@ ("PostFunc" :> FuncsV(<< >>))

\* faulty variant: the names of the routes scanned before the matched one are
\* bound too, to the empty string
Resolve_BindsScanned(r, method, path) ==
    /\ phase = "listening"
    /\ rq[r].pc = "idle"
    /\ LET q == [Idle EXCEPT !.method = method, !.path = path] IN
       IF ~RoutesFor(Routes, method).ok
       THEN rq' = [rq EXCEPT ![r] = [q EXCEPT !.pc = "done", !.status = 405]]
       ELSE LET routes == RoutesFor(Routes, method).routes
                index == FirstMatch(routes, path, 1)
                scanned == UNION {{routes[i].Params[j] : j \in 1..Len(routes[i].Params)} :
                                  i \in 1..(index - 1)}
            IN IF index = 0
               THEN rq' = [rq EXCEPT ![r] = [q EXCEPT !.pc = "done", !.status = 404]]
               ELSE rq' = [rq EXCEPT ![r] =
                        [q EXCEPT !.pc = IF Middlewares = << >> THEN "handler" ELSE "mw",
                                  !.index = index,
                                  !.hasCtx = TRUE,
                                  !.Params = MatchParams(routes[index], path)
                                                 @@ [n \in scanned |-> << >>],
                                  !.Data = NewContextData,
                                  !.mwi = 1]]
    /\ UNCHANGED << Routes, Middlewares, phase, nHandle, nAddMiddleware, handleCalls,
                   addCalls >>

\* faulty variant: the lookup of a method without routes creates its entry
Resolve_CreatesEntry(r, method, path) ==
    /\ phase = "listening"
    /\ rq[r].pc = "idle"
    /\ LET q == [Idle EXCEPT !.method = method, !.path = path] IN
       IF ~RoutesFor(Routes, method).ok
       THEN /\ rq' = [rq EXCEPT ![r] = [q EXCEPT !.pc = "done", !.status = 405]]
            /\ Routes' = (method :> << >>) @@ Routes
       ELSE LET routes == RoutesFor(Routes, method).routes
                index == FirstMatch(routes, path, 1)
            IN /\ UNCHANGED Routes
               /\ IF index = 0
                  THEN rq' = [rq EXCEPT ![r] = [q EXCEPT !.pc = "done", !.status = 404]]
                  ELSE rq' = [rq EXCEPT ![r] =
                           [q EXCEPT !.pc = IF Middlewares = << >> THEN "handler" ELSE "mw",
                                     !.index = index,
                                     !.hasCtx = TRUE,
                                     !.Params = MatchParams(routes[index], path),
                                     !.Data = NewContextData,
                                     !.mwi = 1]]
    /\ UNCHANGED << Middlewares, phase, nHandle, nAddMiddleware, handleCalls, addCalls >>

\* lines 247-286: 405, 404, or the Context of the matched route
Resolve(r, method, path) ==
    /\ phase = "listening"
    /\ rq[r].pc = "idle"
    /\ LET q == [Idle EXCEPT !.method = method, !.path = path] IN
       IF ~RoutesFor(Routes, method).ok
       THEN rq' = [rq EXCEPT ![r] = [q EXCEPT !.pc = "done", !.status = 405]]
       ELSE LET routes == RoutesFor(Routes, method).routes
                index == FirstMatch(routes, path, 1)
            IN IF index = 0
               THEN rq' = [rq EXCEPT ![r] = [q EXCEPT !.pc = "done", !.status = 404]]
               ELSE rq' = [rq EXCEPT ![r] =
                        [q EXCEPT !.pc = IF Middlewares = << >> THEN "handler" ELSE "mw",
                                  !.index = index,
                                  !.hasCtx = TRUE,
                                  !.Params = MatchParams(routes[index], path),
                                  !.Data = NewContextData,
                                  !.mwi = 1]]
    /\ UNCHANGED << Routes, Middlewares, phase, nHandle, nAddMiddleware, handleCalls,
                   addCalls >>

\* the type assertion context.Get("Abort").(bool) panics on another type
AbortCheck(q) ==
    LET a == Get(q, "Abort") IN
    IF a.t # "bool" THEN "panicked" ELSE IF a.b THEN "break" ELSE "next"

\* faulty variant: one Context is shared by the requests in flight
RunMiddleware_SharedContext(r) ==
    /\ rq[r].pc = "mw"
    /\ LET q == Invoke(rq[r], "mw", Middlewares[rq[r].mwi])
           chk == AbortCheck(q)
           own == IF q.pc = "panicked" THEN q
                  ELSE IF chk = "panicked" THEN [q EXCEPT !.pc = "panicked"]
                  ELSE IF chk = "break" \/ q.mwi = Len(Middlewares)
                       THEN [q EXCEPT !.pc = "handler"]
                       ELSE [q EXCEPT !.mwi = q.mwi + 1]
       IN rq' = [o \in DOMAIN rq |->
                    IF o = r THEN own
                    ELSE IF rq[o].hasCtx THEN [rq[o] EXCEPT !.Data = q.Data]
                    ELSE rq[o]]
    /\ UNCHANGED << Routes, Middlewares, phase, nHandle, nAddMiddleware, handleCalls,
                   addCalls >>

\* lines 288-294: one iteration of the loop over the middlewares
RunMiddleware(r) ==
    /\ rq[r].pc = "mw"
    /\ LET q == Invoke(rq[r], "mw", Middlewares[rq[r].mwi])
           chk == AbortCheck(q)
       IN rq' = [rq EXCEPT ![r] =
              IF q.pc = "panicked" THEN q
              ELSE IF chk = "panicked" THEN [q EXCEPT !.pc = "panicked"]
              ELSE IF chk = "break" \/ q.mwi = Len(Middlewares)
                   THEN [q EXCEPT !.pc = "handler"]
                   ELSE [q EXCEPT !.mwi = q.mwi + 1]]
    /\ UNCHANGED << Routes, Middlewares, phase, nHandle, nAddMiddleware, handleCalls,
                   addCalls >>

\* faulty variant: an aborted request returns at once, without its post-hooks
RunHandler_ReturnOnAbort(r) ==
    /\ rq[r].pc = "handler"
    /\ IF Get(rq[r], "Abort") = BoolV(TRUE)
       THEN rq' = [rq EXCEPT ![r].pc = "done"]
       ELSE LET q == Invoke(rq[r], "handler",
                            RoutesFor(Routes, rq[r].method).routes[rq[r].index].Handler)
                postFuncs == Get(q, "PostFunc")
            IN rq' = [rq EXCEPT ![r] =
                   IF q.pc = "panicked" THEN q
                   ELSE IF postFuncs.t # "funcs" \/ postFuncs.fns = << >>
                        THEN [q EXCEPT !.pc = "done"]
                        ELSE [q EXCEPT !.pc = "post", !.postFuncs = postFuncs.fns,
                                       !.posti = 1]]
    /\ UNCHANGED << Routes, Middlewares, phase, nHandle, nAddMiddleware, handleCalls,
                   addCalls >>

\* faulty variant: the handler is invoked a second time
RunHandler_Twice(r) ==
    /\ rq[r].pc = "handler"
    /\ LET handler == RoutesFor(Routes, rq[r].method).routes[rq[r].index].Handler
           q == Invoke(Invoke(rq[r], "handler", handler), "handler", handler)
           postFuncs == Get(q, "PostFunc")
       IN rq' = [rq EXCEPT ![r] =
              IF q.pc = "panicked" THEN q
              ELSE IF postFuncs.t # "funcs" \/ postFuncs.fns = << >>
                   THEN [q EXCEPT !.pc = "done"]
                   ELSE [q EXCEPT !.pc = "post", !.postFuncs = postFuncs.fns,
                                  !.posti = 1]]
    /\ UNCHANGED << Routes, Middlewares, phase, nHandle, nAddMiddleware, handleCalls,
                   addCalls >>

\* lines 296-301: the handler of the matched route, then the read of the
\* post-hook list
RunHandler(r) ==
    /\ rq[r].pc = "handler"
    /\ LET q == Invoke(rq[r], "handler",
                       RoutesFor(Routes, rq[r].method).routes[rq[r].index].Handler)
           postFuncs == Get(q, "PostFunc")
       IN rq' = [rq EXCEPT ![r] =
              IF q.pc = "panicked" THEN q
              ELSE IF postFuncs.t # "funcs" \/ postFuncs.fns = << >>
                   THEN [q EXCEPT !.pc = "done"]
                   ELSE [q EXCEPT !.pc = "post", !.postFuncs = postFuncs.fns,
                                  !.posti = 1]]
    /\ UNCHANGED << Routes, Middlewares, phase, nHandle, nAddMiddleware, handleCalls,
                   addCalls >>

\* faulty variant: the loop reads the list of the Context at every iteration,
\* so that it also runs the hooks registered while it runs
RunPostHook_LiveList(r) ==
    /\ rq[r].pc = "post"
    /\ LET live == Get(rq[r], "PostFunc").fns
           q == Invoke(rq[r], "post", live[rq[r].posti])
       IN rq' = [rq EXCEPT ![r] =
              IF q.pc = "panicked" THEN q
              ELSE IF q.posti = Len(Get(q, "PostFunc").fns)
                   THEN [q EXCEPT !.pc = "done"]
                   ELSE [q EXCEPT !.posti = q.posti + 1]]
    /\ UNCHANGED << Routes, Middlewares, phase, nHandle, nAddMiddleware, handleCalls,
                   addCalls >>

\* lines 303-305: one iteration of the loop over the post-hooks
RunPostHook(r) ==
    /\ rq[r].pc = "post"
    /\ LET q == Invoke(rq[r], "post", rq[r].postFuncs[rq[r].posti]) IN
       rq' = [rq EXCEPT ![r] =
              IF q.pc = "panicked" THEN q
              ELSE IF q.posti = Len(q.postFuncs)
                   THEN [q EXCEPT !.pc = "done"]
                   ELSE [q EXCEPT !.posti = q.posti + 1]]
    /\ UNCHANGED << Routes, Middlewares, phase, nHandle, nAddMiddleware, handleCalls,
                   addCalls >>

\* ServeHTTP has returned (or its panic was recovered by net/http): the
\* Context is dropped
Return(r) ==
    /\ rq[r].pc \in {"done", "panicked"}
    /\ rq' = [rq EXCEPT ![r] = Idle]
    /\ UNCHANGED << Routes, Middlewares, phase, nHandle, nAddMiddleware, handleCalls,
                   addCalls >>

(***************************************************************************)
(* The dispatch pipeline: registration of routes and middlewares, then     *)
(* requests.                                                               *)
(***************************************************************************)
Str_id == << "/", ":", "i", "d" >>
Str_static == << "/", "s", "t", "a", "t", "i", "c" >>
Str_bad == << "/", ":", "n", "|", "(" >>

\* the routes the application registers: a pattern and its handler
RouteSamples == {<< Str_id, "home" >>, << Str_static, "show" >>, << Str_bad, "home" >>}
MethodLists == {<< >>, << "POST" >>, << "GET", "POST" >>}
Methods == {"GET", "POST"}
Paths == {Str_static, << "/", "7" >>}

Next ==
    \/ \E mws \in MiddlewareLists : AddMiddleware(mws)
    \/ \E ph \in RouteSamples, ms \in MethodLists : Handle(ph[1], ph[2], ms)
    \/ Listen
    \/ \E r \in Requests, m \in Methods, p \in Paths : Resolve(r, m, p)
    \/ \E r \in Requests : RunMiddleware(r)
    \/ \E r \in Requests : RunHandler(r)
    \/ \E r \in Requests : RunPostHook(r)
    \/ \E r \in Requests : Return(r)

Spec == Init /\ [][Next]_vars

(***************************************************************************)
(* Vocabulary of the properties.                                           *)
(***************************************************************************)
IsPrefix(s, t) == Len(s) <= Len(t) /\ SubSeq(t, 1, Len(s)) = s

\* the calls of the log made in one of the roles, in order
RECURSIVE Calls(_, _)
Calls(log, roles) ==
    IF log = << >> THEN << >>
    ELSE IF Head(log).role \in roles
         THEN << Head(log).fn >> \o Calls(Tail(log), roles)
         ELSE Calls(Tail(log), roles)

\* the hooks registered with Post by the calls made in one of the roles
RECURSIVE Registered(_, _)
Registered(log, roles) ==
    IF log = << >> THEN << >>
    ELSE IF Head(log).role \in roles
         THEN Head(log).posted \o Registered(Tail(log), roles)
         ELSE Registered(Tail(log), roles)

Matches(route, path) == FindStringSubmatch(route.Regex, path) # << >>

\* the request has been resolved to a route
Matched(q) == q.pc \in {"mw", "handler", "post", "done"} /\ q.hasCtx

\* position in the log of a middleware call that set the abort flag
AbortingCalls(q) == {i \in 1..Len(q.log) : q.log[i].role = "mw" /\ q.log[i].abort}

(***************************************************************************)
(* C1: when a middleware calls Abort, the handler of the matched route is  *)
(* never invoked for that request and no later middleware runs.            *)
(***************************************************************************)
C1_AbortSkipsHandlerAndLaterMiddleware ==
    \A r \in Requests :
        \A i \in AbortingCalls(rq[r]) :
            \A k \in (i + 1)..Len(rq[r].log) :
                rq[r].log[k].role \notin {"mw", "handler"}

(***************************************************************************)
(* C2: when middleware k calls Abort, every post-hook registered by the    *)
(* middlewares 1..k has been executed, in order, when the dispatch ends.   *)
(***************************************************************************)
C2_HooksRunAfterAbort ==
    \A r \in Requests :
        (rq[r].pc = "done" /\ AbortingCalls(rq[r]) # {})
            => IsPrefix(Registered(rq[r].log, {"mw"}), Calls(rq[r].log, {"post"}))

C2_Witness ==
    \E r \in Requests :
        /\ rq[r].pc = "done"
        /\ AbortingCalls(rq[r]) # {}
        /\ Len(Registered(rq[r].log, {"mw"})) = 2
        /\ Calls(rq[r].log, {"post"}) = << "report", "cleanup" >>

(***************************************************************************)
(* C3: every post-hook registered during middleware or handler execution   *)
(* runs exactly once, after all middlewares and the handler phase, in      *)
(* registration order.                                                     *)
(***************************************************************************)
C3_HooksOnceInOrderAfterHandler ==
    \A r \in Requests :
        /\ \A i, k \in 1..Len(rq[r].log) :
               (i < k /\ rq[r].log[i].role = "post") => rq[r].log[k].role = "post"
        /\ (Matched(rq[r]) /\ rq[r].pc \in {"mw", "handler"})
               => Calls(rq[r].log, {"post"}) = << >>
        /\ (Matched(rq[r]) /\ rq[r].pc = "done")
               => Calls(rq[r].log, {"post"}) = Registered(rq[r].log, {"mw", "handler"})

C3_Witness ==
    \E r \in Requests :
        /\ rq[r].pc = "done"
        /\ Registered(rq[r].log, {"mw"}) = << "report" >>
        /\ Registered(rq[r].log, {"handler"}) = << "audit" >>
        /\ Calls(rq[r].log, {"post"}) = << "report", "audit" >>

(***************************************************************************)
(* C4: a request whose method was never registered gets exactly 405; no    *)
(* middleware, handler or post-hook runs and no Context is created.        *)
(***************************************************************************)
C4_UnregisteredMethod405 ==
    \A r \in Requests :
        (rq[r].pc # "idle" /\ rq[r].method \notin DOMAIN Routes)
            => /\ rq[r].pc = "done"
               /\ rq[r].status = 405
               /\ rq[r].log = << >>
               /\ ~rq[r].hasCtx

C4_Witness ==
    \E r \in Requests :
        /\ rq[r].pc = "done"
        /\ rq[r].status = 405
        /\ rq[r].method = "GET"
        /\ "POST" \in DOMAIN Routes
        /\ Matches(Routes["POST"][1], rq[r].path)
        /\ Middlewares # << >>

(***************************************************************************)
(* C5: a request whose method has routes, none of which matches the path,  *)
(* gets exactly 404 and nothing runs; routes of other methods are not      *)
(* considered.                                                             *)
(***************************************************************************)
C5_NoMatch404 ==
    \A r \in Requests :
        (/\ rq[r].pc # "idle"
         /\ rq[r].method \in DOMAIN Routes
         /\ \A i \in 1..Len(Routes[rq[r].method]) :
                ~Matches(Routes[rq[r].method][i], rq[r].path))
            => /\ rq[r].pc = "done"
               /\ rq[r].status = 404
               /\ rq[r].log = << >>
               /\ ~rq[r].hasCtx

C5_Witness ==
    \E r \in Requests :
        /\ rq[r].pc = "done"
        /\ rq[r].status = 404
        /\ rq[r].method = "GET"
        /\ "POST" \in DOMAIN Routes
        /\ Matches(Routes["POST"][1], rq[r].path)
        /\ Middlewares # << >>

(***************************************************************************)
(* C6: dispatch selects the earliest-registered route of the request's     *)
(* method that matches the path; after /:id then /static under GET, the    *)
(* request GET /static runs the /:id handler with id = "static" and never  *)
(* the /static handler.                                                    *)
(***************************************************************************)
C6_FirstRegisteredMatchWins ==
    \A r \in Requests :
        Matched(rq[r]) =>
            LET q == rq[r]
                routes == Routes[q.method]
            IN /\ Matches(routes[q.index], q.path)
               /\ \A i \in 1..(q.index - 1) : ~Matches(routes[i], q.path)
               /\ \A k \in 1..Len(q.log) :
                      q.log[k].role = "handler" => q.log[k].fn = routes[q.index].Handler
               /\ (/\ q.method = "GET"
                   /\ q.path = Str_static
                   /\ routes = << Route(Str_id, "home"), Route(Str_static, "show") >>)
                      => /\ q.index = 1
                         /\ q.Params = (<< "i", "d" >> :> << "s", "t", "a", "t", "i", "c" >>)
                         /\ "show" \notin {q.log[k].fn : k \in 1..Len(q.log)}
                         /\ q.pc = "done" => Calls(q.log, {"handler"}) = << "home" >>

C6_Witness ==
    \E r \in Requests :
        /\ rq[r].pc = "done"
        /\ rq[r].method = "GET"
        /\ rq[r].path = Str_static
        /\ rq[r].hasCtx
        /\ Routes["GET"] = << Route(Str_id, "home"), Route(Str_static, "show") >>
        /\ Calls(rq[r].log, {"handler"}) = << "home" >>

(***************************************************************************)
(* C7: the compiled matcher has one capturing group per recorded parameter *)
(* name, in the same order, also when a custom regex fragment has its own  *)
(* parentheses: on a match every parameter receives the text of its own    *)
(* path segment.                                                           *)
(***************************************************************************)
RECURSIVE NonEmpty(_)
NonEmpty(parts) ==
    IF parts = << >> THEN << >>
    ELSE IF Head(parts) = << >> THEN NonEmpty(Tail(parts))
    ELSE << Head(parts) >> \o NonEmpty(Tail(parts))

\* the segments of a pattern or of a path
Segments(s) == NonEmpty(Split(s, "/"))

IsDynamic(fragment) ==
    \/ Len(Split(fragment, "|")) = 1 /\ fragment[1] = ":"
    \/ Len(Split(fragment, "|")) = 2

\* the positions, among the segments of the pattern, of the dynamic ones
RECURSIVE DynamicPositions(_, _)
DynamicPositions(segs, n) ==
    IF segs = << >> THEN << >>
    ELSE IF IsDynamic(Head(segs))
         THEN << n >> \o DynamicPositions(Tail(segs), n + 1)
         ELSE DynamicPositions(Tail(segs), n + 1)

Distinct(names) == \A i, k \in 1..Len(names) : names[i] = names[k] => i = k

\* a Handle call that produced the route
CallOf(route) ==
    CHOOSE k \in 1..Len(handleCalls) :
        Route(handleCalls[k].pattern, handleCalls[k].handler) = route

C7_GroupsAlignWithParams ==
    \A r \in Requests :
        (Matched(rq[r]) /\ Distinct(Routes[rq[r].method][rq[r].index].Params)) =>
            LET q == rq[r]
                route == Routes[q.method][q.index]
                pos == DynamicPositions(Segments(handleCalls[CallOf(route)].pattern), 1)
                segs == Segments(q.path)
            IN /\ NumSubexp(RegexpCompile(route.Regex).toks) = Len(route.Params)
               /\ \A i \in 1..Len(route.Params) :
                      /\ route.Params[i] \in DOMAIN q.Params
                      /\ pos[i] <= Len(segs)
                      /\ q.Params[route.Params[i]] = segs[pos[i]]

(***************************************************************************)
(* C8: the middlewares run one at a time in the order they were added      *)
(* with AddMiddleware, across several calls, each at most once, and all    *)
(* that run do so before the route handler.                                *)
(***************************************************************************)
RECURSIVE Flatten(_)
Flatten(lists) == IF lists = << >> THEN << >> ELSE Head(lists) \o Flatten(Tail(lists))

C8_MiddlewaresInAdditionOrder ==
    /\ Middlewares = Flatten(addCalls)
    /\ \A r \in Requests :
           Matched(rq[r]) =>
               LET q == rq[r]
                   ran == Calls(q.log, {"mw"})
               IN /\ IsPrefix(ran, Flatten(addCalls))
                  /\ \A i, k \in 1..Len(q.log) :
                         (i < k /\ q.log[i].role # "mw") => q.log[k].role # "mw"
                  /\ (q.pc \in {"handler", "post", "done"} /\ AbortingCalls(q) = {})
                         => ran = Flatten(addCalls)

C8_Witness ==
    \E r \in Requests :
        /\ rq[r].pc = "done"
        /\ addCalls = << << "timer" >>, << "timer", "guard" >> >>
        /\ Calls(rq[r].log, {"mw"}) = << "timer", "timer", "guard" >>
        /\ Calls(rq[r].log, {"handler"}) # << >>

(***************************************************************************)
(* C9: Handle with an empty methods list registers the route under GET     *)
(* only: GET for the pattern reaches the handler, POST for it yields 405.  *)
(***************************************************************************)
C9_EmptyMethodsMeansGET ==
    (Len(handleCalls) = 1 /\ handleCalls[1].methods = << >> /\ phase # "exited") =>
        LET c == handleCalls[1] IN
        /\ DOMAIN Routes = {"GET"}
        /\ Routes["GET"] = << Route(c.pattern, c.handler) >>
        /\ \A r \in Requests :
               /\ (rq[r].pc # "idle" /\ rq[r].method = "POST")
                      => rq[r].pc = "done" /\ rq[r].status = 405 /\ rq[r].log = << >>
               /\ (/\ rq[r].pc = "done"
                   /\ rq[r].method = "GET"
                   /\ FindStringSubmatch(RegexPattern(c.pattern), rq[r].path) # << >>)
                      => Calls(rq[r].log, {"handler"}) = << c.handler >>

C9_Witness ==
    /\ Len(handleCalls) = 1
    /\ handleCalls[1].methods = << >>
    /\ phase = "listening"
    /\ \E r \in Requests :
           /\ rq[r].pc = "done"
           /\ rq[r].method = "POST"
           /\ rq[r].status = 405
           /\ FindStringSubmatch(RegexPattern(handleCalls[1].pattern), rq[r].path) # << >>

(***************************************************************************)
(* C10: registering the identical (pattern, method, handler) twice keeps   *)
(* two entries in the method's route list, and a dispatch that reaches     *)
(* this route invokes the first entry's handler, exactly once.             *)
(***************************************************************************)
Count(seq, x) == Cardinality({i \in 1..Len(seq) : seq[i] = x})

Elems(seq) == {seq[i] : i \in 1..Len(seq)}

FirstIndex(seq, x) == CHOOSE i \in 1..Len(seq) : seq[i] = x /\ \A k \in 1..(i - 1) : seq[k] # x

\* how many times the Handle calls appended the route to the list of m
Appended(route, m) ==
    LET Times(k) == IF Route(handleCalls[k].pattern, handleCalls[k].handler) = route
                    THEN Count(DefaultMethods(handleCalls[k].methods), m)
                    ELSE 0
        sum[k \in 0..Len(handleCalls)] == IF k = 0 THEN 0 ELSE sum[k - 1] + Times(k)
    IN sum[Len(handleCalls)]

C10_DuplicateRoutesKept ==
    \A i, j \in 1..Len(handleCalls) :
        (i < j /\ handleCalls[i] = handleCalls[j] /\ phase # "exited") =>
            LET c == handleCalls[i]
                route == Route(c.pattern, c.handler)
            IN \A m \in Elems(DefaultMethods(c.methods)) :
                   /\ m \in DOMAIN Routes
                   /\ Count(Routes[m], route) = Appended(route, m)
                   /\ Count(Routes[m], route) >= 2
                   /\ \A r \in Requests :
                          (/\ Matched(rq[r])
                           /\ rq[r].method = m
                           /\ Routes[m][rq[r].index] = route)
                              => /\ rq[r].index = FirstIndex(Routes[m], route)
                                 /\ Len(Calls(rq[r].log, {"handler"})) <= 1
                                 /\ rq[r].pc \in {"post", "done"}
                                        => Calls(rq[r].log, {"handler"}) = << c.handler >>

C10_Witness ==
    /\ Len(handleCalls) = 2
    /\ handleCalls[1] = handleCalls[2]
    /\ \E r \in Requests :
           /\ rq[r].pc = "done"
           /\ rq[r].hasCtx
           /\ rq[r].index = 1
           /\ Len(Routes[rq[r].method]) = 2
           /\ Calls(rq[r].log, {"handler"}) = << handleCalls[1].handler >>

(***************************************************************************)
(* C15: a request invokes at most one route handler: the handler of the    *)
(* matched route, never the handler of another route, never twice; a       *)
(* request without a matched route invokes none.                           *)
(***************************************************************************)
C15_AtMostOneHandlerCall ==
    \A r \in Requests :
        LET q == rq[r]
            ran == Calls(q.log, {"handler"})
        IN /\ Len(ran) <= 1
           /\ ran # << >> =>
                  /\ q.hasCtx
                  /\ q.index \in 1..Len(Routes[q.method])
                  /\ ran = << Routes[q.method][q.index].Handler >>
           /\ ~q.hasCtx => q.log = << >>

C15_Witness ==
    \E r \in Requests :
        /\ rq[r].pc = "done"
        /\ rq[r].method = "GET"
        /\ rq[r].path = << "/", "7" >>
        /\ rq[r].hasCtx
        /\ Routes["GET"] = << Route(Str_static, "show"), Route(Str_id, "home") >>
        /\ Middlewares # << >>
        /\ Calls(rq[r].log, {"handler"}) = << "home" >>
        /\ Calls(rq[r].log, {"post"}) # << >>

(***************************************************************************)
(* C16: a Handle call whose regular expression does not compile stops the  *)
(* process and leaves the route table as it was: the broken route is in    *)
(* the list of no method, and no step follows the exit.                    *)
(***************************************************************************)
Broken(pattern) == RegexpCompile(RegexPattern(pattern)).err

C16_CompileFailureIsFatal ==
    [][/\ phase # "exited"
       /\ (/\ Len(handleCalls') = Len(handleCalls) + 1
           /\ Broken(handleCalls'[Len(handleCalls')].pattern))
              => /\ phase' = "exited"
                 /\ Routes' = Routes
                 /\ \A m \in DOMAIN Routes' : \A i \in 1..Len(Routes'[m]) :
                        Routes'[m][i].Regex # RegexPattern(handleCalls'[Len(handleCalls')].pattern)
      ]_vars

C16_Witness ==
    /\ phase = "exited"
    /\ Len(handleCalls) = 2
    /\ handleCalls[1] = [pattern |-> Str_id, handler |-> "home", methods |-> << "GET", "POST" >>]
    /\ handleCalls[2] = [pattern |-> Str_bad, handler |-> "home", methods |-> << "GET", "POST" >>]
    /\ DOMAIN Routes = {"GET", "POST"}
    /\ Routes["GET"] = << Route(Str_id, "home") >>
    /\ Routes["POST"] = << Route(Str_id, "home") >>

(***************************************************************************)
(* C17: when a request has been matched and no function has run yet, its   *)
(* Context carries exactly the parameters of the matched route, each bound *)
(* to its path segment, no scratch entry, an empty post-hook list and      *)
(* abort = false.  The hook list and the flag are the entries "PostFunc"   *)
(* and "Abort" of the Data map; the scratch store is the rest of the map.  *)
(***************************************************************************)
ReservedKeys == {"Abort", "PostFunc"}

\* the request is matched and the first function is about to run
Fresh(q) == Matched(q) /\ q.log = << >>

C17_FreshContext ==
    \A r \in Requests :
        Fresh(rq[r]) =>
            LET q == rq[r]
                route == Routes[q.method][q.index]
                pos == DynamicPositions(Segments(handleCalls[CallOf(route)].pattern), 1)
                segs == Segments(q.path)
            IN /\ q.pc = (IF Middlewares = << >> THEN "handler" ELSE "mw")
               /\ q.mwi = 1
               /\ DOMAIN q.Params = Elems(route.Params)
               /\ \A i \in 1..Len(route.Params) : q.Params[route.Params[i]] = segs[pos[i]]
               /\ DOMAIN q.Data \ ReservedKeys = {}
               /\ Get(q, "PostFunc") = FuncsV(<< >>)
               /\ Get(q, "Abort") = BoolV(FALSE)

C17_Witness ==
    \E r \in Requests :
        /\ Fresh(rq[r])
        /\ rq[r].pc = "mw"
        /\ Middlewares = << "timer", "guard" >>
        /\ rq[r].Params = (<< "i", "d" >> :> << "7" >>)

(***************************************************************************)
(* C19: request handling is read-only on the registration state: a step of *)
(* a dispatch, whether it ends in 405, 404, an abort or a handler run,     *)
(* leaves the route table and the middleware list unchanged.               *)
(***************************************************************************)
C19_DispatchIsReadOnly ==
    [][rq' # rq => (Routes' = Routes /\ Middlewares' = Middlewares)]_vars

C19_Witness ==
    /\ phase = "listening"
    /\ Routes # NoRoutes
    /\ \E r \in Requests :
           /\ rq[r].pc = "done"
           /\ rq[r].status = 405
           /\ Middlewares = << "auth" >>

(***************************************************************************)
(* Pattern compilation and matching on their own: routes registered under  *)
(* GET, no middleware, requests for a range of paths.                      *)
(***************************************************************************)
Str_digits == << "/", ":", "i", "d", "|", "[", "0", "-", "9", "]", "+" >>
Str_user == << "/", "u", "/", ":", "i", "d" >>
Str_pair == << "/", ":", "a", "/", ":", "b" >>
Str_nested == << "/", ":", "a", "|", "(", "x", ")", "y", "/", ":", "b" >>

Str_dot == << "/", "a", ".", "b" >>
Str_pipe == << "/", "a", "|", "b" >>

MatchPatterns ==
    {Str_id, Str_static, Str_digits, Str_user, Str_pair, Str_nested, Str_dot, Str_pipe}
MatchPaths ==
    {Str_static, << "/", "7" >>, << "/", "u", "/", "7" >>, << "/", "a", "/", "b" >>,
     << "/", "x", "y", "/", "q" >>, << "/" >>, Str_dot, << "/", "a", "x", "b" >>,
     Str_pipe, << "/", "b" >>, << "/", "1", "2" >>, << "/", "1", "a" >>}

NextMatch ==
    \/ \E p \in MatchPatterns : Handle(p, "home", << >>)
    \/ Listen
    \/ \E r \in Requests, p \in MatchPaths : Resolve(r, "GET", p)
    \/ \E r \in Requests : RunHandler(r)
    \/ \E r \in Requests : Return(r)

SpecMatch == Init /\ [][NextMatch]_vars

\* a dynamic segment as the pattern language defines it: :name or :name|regex
NamedSegment(fragment) == fragment[1] = ":" /\ Len(Split(fragment, "|")) \in {1, 2}

\* the route registered by the first Handle call is the first of the GET list
FirstCall == handleCalls[1]

(***************************************************************************)
(* C11: a pattern without dynamic segments matches the path identical to   *)
(* it and no other path.                                                   *)
(***************************************************************************)
C11_StaticMatchesOnlyItself ==
    (/\ Len(handleCalls) >= 1
     /\ phase # "exited"
     /\ \A k \in 1..Len(Segments(FirstCall.pattern)) :
            ~NamedSegment(Segments(FirstCall.pattern)[k])) =>
        \A r \in Requests :
            (rq[r].pc # "idle" /\ rq[r].method = "GET") =>
                /\ rq[r].path = FirstCall.pattern => Matched(rq[r]) /\ rq[r].index = 1
                /\ rq[r].path # FirstCall.pattern => rq[r].index # 1

(***************************************************************************)
(* C12: a pattern /:name matches /x for every non-empty x without a slash  *)
(* and binds name to x; it matches neither / nor a path of several         *)
(* segments.                                                               *)
(***************************************************************************)
\* the path is a slash followed by one non-empty segment
SingleSegment(path) ==
    /\ Len(path) >= 2
    /\ path[1] = "/"
    /\ \A i \in 2..Len(path) : path[i] # "/"

\* the pattern is a slash, a colon and a name
BareName(pattern) ==
    /\ Len(pattern) >= 2
    /\ pattern[1] = "/"
    /\ pattern[2] = ":"
    /\ \A i \in 3..Len(pattern) : pattern[i] \notin {"/", "|"}

C12_BareNameMatchesOneSegment ==
    (Len(handleCalls) >= 1 /\ phase # "exited" /\ BareName(FirstCall.pattern)) =>
        \A r \in Requests :
            (rq[r].pc # "idle" /\ rq[r].method = "GET") =>
                LET name == SubSeq(FirstCall.pattern, 3, Len(FirstCall.pattern))
                    x == Tail(rq[r].path)
                IN /\ SingleSegment(rq[r].path) =>
                          /\ Matched(rq[r])
                          /\ rq[r].index = 1
                          /\ rq[r].Params = (name :> x)
                   /\ ~SingleSegment(rq[r].path) => rq[r].index # 1

C12_Witness ==
    /\ Len(handleCalls) >= 1
    /\ BareName(FirstCall.pattern)
    /\ \E r \in Requests :
           /\ rq[r].pc = "done"
           /\ rq[r].path = Str_pipe
           /\ rq[r].index = 1
           /\ rq[r].Params = (<< "i", "d" >> :> << "a", "|", "b" >>)

(***************************************************************************)
(* C13: a pattern /:name|[0-9]+ matches a path whose single segment is a   *)
(* non-empty string of digits and binds name to it; it does not match a    *)
(* path whose segment is not all digits.                                   *)
(***************************************************************************)
Digits == {"0", "1", "2", "3", "4", "5", "6", "7", "8", "9"}

DigitSegment(path) ==
    /\ Len(path) >= 2
    /\ path[1] = "/"
    /\ \A i \in 2..Len(path) : path[i] \in Digits

Str_digitclass == << "|", "[", "0", "-", "9", "]", "+" >>

\* the pattern is a slash, a colon, a name and |[0-9]+
DigitName(pattern) ==
    /\ Len(pattern) >= 2 + Len(Str_digitclass)
    /\ BareName(SubSeq(pattern, 1, Len(pattern) - Len(Str_digitclass)))
    /\ SubSeq(pattern, Len(pattern) - Len(Str_digitclass) + 1, Len(pattern)) = Str_digitclass

C13_DigitsMatchOnlyDigits ==
    (Len(handleCalls) >= 1 /\ phase # "exited" /\ DigitName(FirstCall.pattern)) =>
        \A r \in Requests :
            (rq[r].pc # "idle" /\ rq[r].method = "GET") =>
                LET name == SubSeq(FirstCall.pattern, 3,
                                   Len(FirstCall.pattern) - Len(Str_digitclass))
                    x == Tail(rq[r].path)
                IN /\ DigitSegment(rq[r].path) =>
                          /\ Matched(rq[r])
                          /\ rq[r].index = 1
                          /\ rq[r].Params = (name :> x)
                   /\ ~DigitSegment(rq[r].path) => rq[r].index # 1

C13_Witness ==
    /\ Len(handleCalls) >= 1
    /\ FirstCall.pattern = Str_digits
    /\ \E r \in Requests :
           /\ rq[r].pc = "done"
           /\ rq[r].path = << "/", "1", "2" >>
           /\ rq[r].index = 1
           /\ rq[r].Params = (<< "i", "d" >> :> << "1", "2" >>)

(***************************************************************************)
(* C20: a segment with a | whose first part does not start with : is a     *)
(* static literal: the route records no parameter name, its expression has *)
(* no capturing group, and it matches the verbatim segment text only.      *)
(***************************************************************************)
PipeLiteral(fragment) == Len(Split(fragment, "|")) >= 2 /\ fragment[1] # ":"

C20_PipeSegmentIsLiteral ==
    (/\ Len(handleCalls) >= 1
     /\ phase # "exited"
     /\ Len(Segments(FirstCall.pattern)) = 1
     /\ PipeLiteral(Segments(FirstCall.pattern)[1])) =>
        /\ Routes["GET"][1].Params = << >>
        /\ NumSubexp(RegexpCompile(Routes["GET"][1].Regex).toks) = 0
        /\ \A r \in Requests :
               (rq[r].pc # "idle" /\ rq[r].method = "GET") =>
                   (rq[r].index = 1 <=> Segments(rq[r].path) = Segments(FirstCall.pattern))

(***************************************************************************)
(* Functions that write the keys the dispatcher keeps in the Data map.     *)
(***************************************************************************)
KeyMiddlewareLists == {<< "toggle" >>, << "sentry" >>, << "timer" >>}
KeyRouteSamples == {<< Str_id, "home" >>, << Str_static, "show" >>}

NextKeys ==
    \/ \E mws \in KeyMiddlewareLists : AddMiddleware(mws)
    \/ \E ph \in KeyRouteSamples : Handle(ph[1], ph[2], << >>)
    \/ Listen
    \/ \E r \in Requests, p \in Paths : Resolve(r, "GET", p)
    \/ \E r \in Requests : RunMiddleware(r)
    \/ \E r \in Requests : RunHandler(r)
    \/ \E r \in Requests : RunPostHook(r)
    \/ \E r \in Requests : Return(r)

SpecKeys == Init /\ [][NextKeys]_vars

(***************************************************************************)
(* C14: abort is one-way within a request: once a function of the request  *)
(* has called Abort, the abort flag of its Context stays set, whatever     *)
(* Set, Get, Post and Abort calls follow.                                  *)
(***************************************************************************)
C14_AbortIsOneWay ==
    \A r \in Requests :
        (rq[r].hasCtx /\ \E i \in 1..Len(rq[r].log) : rq[r].log[i].abort) =>
            Get(rq[r], "Abort") = BoolV(TRUE)

(***************************************************************************)
(* Concurrent requests: net/http serves every request in its own           *)
(* goroutine, so the steps of two ServeHTTP calls interleave.              *)
(***************************************************************************)
ConcRequests == {"r1", "r2"}
ConcMiddlewareLists == {<< "timer" >>, << "guard" >>}

InitConc ==
    /\ Routes = NoRoutes
    /\ Middlewares = << >>
    /\ phase = "setup"
    /\ nHandle = 0
    /\ nAddMiddleware = 0
    /\ handleCalls = << >>
    /\ addCalls = << >>
    /\ rq = [r \in ConcRequests |-> Idle]

NextConc ==
    \/ \E mws \in ConcMiddlewareLists : AddMiddleware(mws)
    \/ \E ph \in KeyRouteSamples : Handle(ph[1], ph[2], << >>)
    \/ Listen
    \/ \E r \in ConcRequests, p \in Paths : Resolve(r, "GET", p)
    \/ \E r \in ConcRequests : RunMiddleware(r)
    \/ \E r \in ConcRequests : RunHandler(r)
    \/ \E r \in ConcRequests : RunPostHook(r)
    \/ \E r \in ConcRequests : Return(r)

SpecConc == InitConc /\ [][NextConc]_vars

(***************************************************************************)
(* C18: with requests dispatched concurrently, every request has its own   *)
(* Context: its abort flag, scratch store and post-hook list are the       *)
(* result of the calls of its own functions alone, its parameters come     *)
(* from its own path, and the post-hooks it runs are the ones registered   *)
(* in it.                                                                  *)
(***************************************************************************)
\* the Data map after the calls of the log, made in order on a new Context
RECURSIVE Replay(_, _)
Replay(log, c) == IF log = << >> THEN c ELSE Replay(Tail(log), Call(Head(log).fn, c))

OwnData(q) ==
    Replay(q.log, [Method |-> q.method, Data |-> NewContextData, Params |-> q.Params,
                   status |-> 0,
                   recorders |-> << >>, panic |-> FALSE, posted |-> << >>,
                   aborted |-> FALSE, got |-> << >>, wrote |-> << >>,
                   reported |-> << >>]).Data

C18_RequestsAreIsolated ==
    \A r \in ConcRequests :
        Matched(rq[r]) =>
            LET q == rq[r] IN
            /\ q.Data = OwnData(q)
            /\ q.Params = MatchParams(Routes[q.method][q.index], q.path)
            /\ IsPrefix(Calls(q.log, {"post"}), Registered(q.log, {"mw", "handler"}))
            /\ q.pc = "done" => Calls(q.log, {"post"}) = Registered(q.log, {"mw", "handler"})

\* one request aborted and running its hooks, the other still before the
\* aborting middleware, on another route
C18_Witness ==
    /\ Middlewares = << "timer", "guard" >>
    /\ rq["r1"].pc = "post"
    /\ Get(rq["r1"], "Abort") = BoolV(TRUE)
    /\ rq["r1"].path = << "/", "7" >>
    /\ rq["r2"].pc = "mw"
    /\ rq["r2"].mwi = 2
    /\ rq["r2"].path = Str_static
    /\ Get(rq["r2"], "Abort") = BoolV(FALSE)
    /\ Get(rq["r2"], "PostFunc") = FuncsV(<< "report" >>)
    /\ Get(rq["r1"], "PostFunc") # Get(rq["r2"], "PostFunc")

(***************************************************************************)
(* The forms of a pattern: slashes, fragments with several |, fragments    *)
(* that match a slash, the wildcard of the README.                         *)
(***************************************************************************)
Str_alt == << "/", ":", "i", "d", "|", "a", "|", "b" >>
Str_a == << "a" >>
Str_slash_a == << "/", "a" >>
Str_a_slash == << "/", "a", "/" >>
Str_slash_slash_a == << "/", "/", "a" >>
Str_any == << "/", ":", "p", "|", ".", "+" >>
Str_wild == << "/", "f", "/", "*", "p" >>

FormPatterns ==
    {Str_alt, Str_a, Str_slash_a, Str_a_slash, Str_slash_slash_a, Str_any, Str_wild, Str_id}
FormPaths ==
    {Str_slash_a, Str_a_slash, Str_slash_slash_a, << "/", "b" >>, << "/", "a", "/", "b" >>,
     << "/", "f", "/", "a" >>, << "/", "f", "/", "a", "/", "b" >>, Str_wild}

NextForms ==
    \/ \E p \in FormPatterns : Handle(p, "home", << >>)
    \/ Listen
    \/ \E r \in Requests, p \in FormPaths : Resolve(r, "GET", p)
    \/ \E r \in Requests : RunHandler(r)
    \/ \E r \in Requests : Return(r)

SpecForms == Init /\ [][NextForms]_vars

(***************************************************************************)
(* C21: a segment is split on its first | only: :name|fragment with a      *)
(* fragment that itself has a | is a dynamic segment named name whose      *)
(* matcher is the whole fragment after the first |.                        *)
(***************************************************************************)
\* position of the first | of the fragment, 0 if there is none
FirstBar(fragment) ==
    IF \E i \in 1..Len(fragment) : fragment[i] = "|"
    THEN CHOOSE i \in 1..Len(fragment) :
             fragment[i] = "|" /\ \A k \in 1..(i - 1) : fragment[k] # "|"
    ELSE 0

\* a :name|fragment segment whose fragment has a | of its own
NamedWithBars(fragment) ==
    fragment[1] = ":" /\ FirstBar(fragment) > 2 /\ Len(Split(fragment, "|")) >= 3

C21_SplitOnFirstBarOnly ==
    (/\ Len(handleCalls) >= 1
     /\ phase # "exited"
     /\ Len(Segments(FirstCall.pattern)) = 1
     /\ NamedWithBars(Segments(FirstCall.pattern)[1])) =>
        LET fragment == Segments(FirstCall.pattern)[1]
            bar == FirstBar(fragment)
        IN /\ Routes["GET"][1].Params = << SubSeq(fragment, 2, bar - 1) >>
           /\ Routes["GET"][1].Regex =
                  << "^", "/", "(" >> \o SubSeq(fragment, bar + 1, Len(fragment))
                  \o << ")", "$" >>

(***************************************************************************)
(* C22: patterns that differ only in leading, trailing or repeated slashes *)
(* compile to the same matcher and the same parameter names, and accept    *)
(* the same request paths.                                                 *)
(***************************************************************************)
C22_SlashesCollapse ==
    \A i, j \in 1..Len(handleCalls) :
        (/\ i < j
         /\ phase # "exited"
         /\ Segments(handleCalls[i].pattern) = Segments(handleCalls[j].pattern)) =>
            /\ Routes["GET"][i].Regex = Routes["GET"][j].Regex
            /\ Routes["GET"][i].Params = Routes["GET"][j].Params
            /\ \A r \in Requests :
                   (rq[r].pc # "idle" /\ rq[r].method = "GET") =>
                       /\ rq[r].index # j
                       /\ Matches(Routes["GET"][i], rq[r].path)
                              <=> Matches(Routes["GET"][j], rq[r].path)

C22_Witness ==
    /\ Len(handleCalls) = 2
    /\ handleCalls[1].pattern = Str_slash_slash_a
    /\ handleCalls[2].pattern = Str_a
    /\ \E r \in Requests :
           /\ rq[r].pc = "done"
           /\ rq[r].path = Str_slash_a
           /\ rq[r].index = 1

(***************************************************************************)
(* C23: a route matches a path only as a whole: a matched path is a slash  *)
(* followed by exactly as many segments as the pattern has, joined by      *)
(* single slashes, with no leading or trailing extra segment and no        *)
(* trailing slash.                                                         *)
(***************************************************************************)
Canonical(path) == path = << "/" >> \o Join(Segments(path), "/")

WholeMatch(q) ==
    (q.pc # "idle" /\ q.method = "GET" /\ q.index = 1) =>
        /\ Canonical(q.path)
        /\ Len(Segments(q.path)) = Len(Segments(FirstCall.pattern))

C23_MatchesWholePathOnly ==
    (Len(handleCalls) >= 1 /\ phase # "exited") =>
        \A r \in Requests : WholeMatch(rq[r])

\* C23 as it holds: for patterns without a custom regex fragment; a custom
\* fragment is embedded as it is and can itself match a slash
NoCustomFragment(pattern) ==
    \A k \in 1..Len(Segments(pattern)) : Len(Split(Segments(pattern)[k], "|")) = 1

C23_WholePathWithoutCustomFragment ==
    (Len(handleCalls) >= 1 /\ phase # "exited" /\ NoCustomFragment(FirstCall.pattern)) =>
        \A r \in Requests : WholeMatch(rq[r])

C23_Witness ==
    /\ Len(handleCalls) = 1
    /\ FirstCall.pattern = Str_slash_a
    /\ \E r \in Requests :
           /\ rq[r].pc = "done"
           /\ rq[r].path = Str_a_slash
           /\ rq[r].status = 404

(***************************************************************************)
(* C26: a route registered with a wildcard pattern such as /files/*path    *)
(* matches the request paths below its prefix, also those with several     *)
(* remaining segments.                                                     *)
(***************************************************************************)
\* the last segment of the pattern is a wildcard, the others are literals
Wildcard(pattern) ==
    LET segs == Segments(pattern) IN
    /\ Len(segs) >= 2
    /\ segs[Len(segs)][1] = "*"
    /\ \A k \in 1..(Len(segs) - 1) : segs[k][1] \notin {":", "*"}

\* the path has the segments before the wildcard and at least one more
Below(path, pattern) ==
    LET n == Len(Segments(pattern)) - 1 IN
    /\ Len(Segments(path)) > n
    /\ SubSeq(Segments(path), 1, n) = SubSeq(Segments(pattern), 1, n)

C26_WildcardMatchesRest ==
    (Len(handleCalls) >= 1 /\ phase # "exited" /\ Wildcard(FirstCall.pattern)) =>
        \A r \in Requests :
            (/\ rq[r].pc # "idle"
             /\ rq[r].method = "GET"
             /\ Below(rq[r].path, FirstCall.pattern)
             /\ \A i \in 1..Len(rq[r].path) : rq[r].path[i] # "*") =>
                Matched(rq[r]) /\ rq[r].index = 1

(***************************************************************************)
(* Registration under several methods and through the verb shorthands.     *)
(***************************************************************************)
VerbMethodLists == {<< "PUT", "DELETE" >>, << "PATCH", "GET", "PATCH" >>}
VerbMethods == {"GET", "POST", "PUT", "PATCH", "DELETE"}

NextVerbs ==
    \/ \E ph \in KeyRouteSamples, ms \in VerbMethodLists : Handle(ph[1], ph[2], ms)
    \/ \E ph \in KeyRouteSamples : GET(ph[1], ph[2])
    \/ \E ph \in KeyRouteSamples : POST(ph[1], ph[2])
    \/ \E ph \in KeyRouteSamples : PUT(ph[1], ph[2])
    \/ \E ph \in KeyRouteSamples : PATCH(ph[1], ph[2])
    \/ \E ph \in KeyRouteSamples : DELETE(ph[1], ph[2])
    \/ Listen
    \/ \E r \in Requests, m \in VerbMethods : Resolve(r, m, << "/", "7" >>)
    \/ \E r \in Requests : RunHandler(r)
    \/ \E r \in Requests : Return(r)

SpecVerbs == Init /\ [][NextVerbs]_vars

RoutesOr(table, m) == IF m \in DOMAIN table THEN table[m] ELSE << >>

Repeat(x, n) == [i \in 1..n |-> x]

\* the step is a Handle call that returned
Registers == Len(handleCalls') = Len(handleCalls) + 1 /\ phase' # "exited"

LastCall == handleCalls'[Len(handleCalls')]

(***************************************************************************)
(* C25: Handle with a non-empty methods list appends the same route to the *)
(* list of each listed method and to no other; each verb shorthand         *)
(* registers the route under its own verb only.                            *)
(***************************************************************************)
AppendsUnder(methods) ==
    LET route == Route(LastCall.pattern, LastCall.handler) IN
    /\ DOMAIN Routes' = DOMAIN Routes \cup Elems(methods)
    /\ \A m \in DOMAIN Routes' :
           Routes'[m] = RoutesOr(Routes, m) \o Repeat(route, Count(methods, m))

C25_RegistersUnderListedMethods ==
    [][/\ (Registers /\ LastCall.methods # << >>) => AppendsUnder(LastCall.methods)
       /\ \A ph \in KeyRouteSamples :
              /\ GET(ph[1], ph[2]) /\ Registers => AppendsUnder(<< "GET" >>)
              /\ POST(ph[1], ph[2]) /\ Registers => AppendsUnder(<< "POST" >>)
              /\ PUT(ph[1], ph[2]) /\ Registers => AppendsUnder(<< "PUT" >>)
              /\ PATCH(ph[1], ph[2]) /\ Registers => AppendsUnder(<< "PATCH" >>)
              /\ DELETE(ph[1], ph[2]) /\ Registers => AppendsUnder(<< "DELETE" >>)
      ]_vars

C25_Witness ==
    /\ Len(handleCalls) = 2
    /\ handleCalls[1] = [pattern |-> Str_id, handler |-> "home", methods |-> << "PUT", "DELETE" >>]
    /\ handleCalls[2] = [pattern |-> Str_static, handler |-> "show", methods |-> << "PATCH" >>]
    /\ DOMAIN Routes = {"PUT", "DELETE", "PATCH"}
    /\ Routes["PUT"] = << Route(Str_id, "home") >>
    /\ Routes["DELETE"] = << Route(Str_id, "home") >>
    /\ Routes["PATCH"] = << Route(Str_static, "show") >>

(***************************************************************************)
(* C27: the route list of a method is append-only and keeps insertion      *)
(* order: a registration never removes, replaces or reorders an earlier    *)
(* entry, a method that has a route stays registered, and the routes of a  *)
(* method are in the order of the Handle calls that listed it.             *)
(***************************************************************************)
\* the routes the recorded calls have put under the method, in call order
Listed(m) ==
    Flatten([k \in 1..Len(handleCalls) |->
                Repeat(Route(handleCalls[k].pattern, handleCalls[k].handler),
                       Count(DefaultMethods(handleCalls[k].methods), m))])

C27_RouteListsAppendOnly ==
    /\ [](phase # "exited" =>
              \A m \in VerbMethods : RoutesOr(Routes, m) = Listed(m))
    /\ [][\A m \in DOMAIN Routes :
              m \in DOMAIN Routes' /\ IsPrefix(Routes[m], Routes'[m])]_vars

C27_Witness ==
    /\ Len(handleCalls) = 2
    /\ handleCalls[1] = [pattern |-> Str_static, handler |-> "show",
                         methods |-> << "PATCH", "GET", "PATCH" >>]
    /\ handleCalls[2] = [pattern |-> Str_id, handler |-> "home", methods |-> << "PATCH" >>]
    /\ Routes["PATCH"] = << Route(Str_static, "show"), Route(Str_static, "show"),
                            Route(Str_id, "home") >>

(***************************************************************************)
(* The scratch store across the stages of a request: functions that write  *)
(* and read keys, and one that overwrites the key of the post-hook list.   *)
(***************************************************************************)
StoreMiddlewareLists == {<< "timer" >>, << "stamp" >>, << "clobber" >>}
StoreRouteSamples == {<< Str_id, "read" >>, << Str_static, "show" >>}

NextStore ==
    \/ \E mws \in StoreMiddlewareLists : AddMiddleware(mws)
    \/ \E ph \in StoreRouteSamples : Handle(ph[1], ph[2], << >>)
    \/ Listen
    \/ \E r \in Requests, p \in Paths : Resolve(r, "GET", p)
    \/ \E r \in Requests : RunMiddleware(r)
    \/ \E r \in Requests : RunHandler(r)
    \/ \E r \in Requests : RunPostHook(r)
    \/ \E r \in Requests : Return(r)

SpecStore == Init /\ [][NextStore]_vars

(***************************************************************************)
(* C24: the functions of one request share one Context: Get(key) returns   *)
(* the value of the last write of the key made earlier in the request, by  *)
(* whatever stage, and no value when the key was never written.            *)
(***************************************************************************)
\* the Context calls of the functions of the log, in order
CallsMade(log) == Flatten([i \in 1..Len(log) |-> Body(log[i].fn)])

\* the results of the Get calls of the log, in order
Gots(log) == Flatten([i \in 1..Len(log) |-> log[i].got])

\* position in ops of the n-th Get call
RECURSIVE NthGet(_, _, _)
NthGet(ops, n, from) ==
    IF ops[from].op = "Get"
    THEN IF n = 1 THEN from ELSE NthGet(ops, n - 1, from + 1)
    ELSE NthGet(ops, n, from + 1)

Writes(o, key) == (o.op = "Set" /\ o.key = key) \/ (o.op = "Abort" /\ key = "Abort")

\* the value the key has before the call at pos: the dispatcher starts the
\* request with Abort = false
LastWrite(ops, pos, key) ==
    LET W == {k \in 1..(pos - 1) : Writes(ops[k], key)} IN
    IF W = {} THEN (IF key = "Abort" THEN BoolV(FALSE) ELSE NilV)
    ELSE LET last == CHOOSE k \in W : \A x \in W : x <= k
         IN IF ops[last].op = "Set" THEN ops[last].val ELSE BoolV(TRUE)

C24_GetReturnsLastSet ==
    \A r \in Requests :
        LET ops == CallsMade(rq[r].log)
            gots == Gots(rq[r].log)
        IN \A n \in 1..Len(gots) :
               LET pos == NthGet(ops, n, 1) IN
               /\ gots[n].key = ops[pos].key
               /\ gots[n].val = LastWrite(ops, pos, gots[n].key)

C24_Witness ==
    \E r \in Requests :
        /\ rq[r].pc = "done"
        /\ Calls(rq[r].log, {"mw", "handler", "post"})
               = << "timer", "stamp", "read", "report" >>
        /\ Gots(rq[r].log) =
               << [key |-> "start", val |-> StrV("t0")],
                  [key |-> "start", val |-> StrV("t1")],
                  [key |-> "missing", val |-> NilV],
                  [key |-> "Abort", val |-> BoolV(FALSE)],
                  [key |-> "start", val |-> StrV("t1")] >>

(***************************************************************************)
(* C30: when a middleware or the handler has overwritten the key PostFunc  *)
(* through Set with a value that is not a hook list, the request runs no   *)
(* post-hook and returns without error.                                    *)
(***************************************************************************)
\* the function calls Set("PostFunc", v) with v not a hook list
Overwrites(fn) ==
    \E k \in 1..Len(Body(fn)) :
        /\ Body(fn)[k].op = "Set"
        /\ Body(fn)[k].key = "PostFunc"
        /\ Body(fn)[k].val.t # "funcs"

C30_OverwrittenHookListIsDropped ==
    \A r \in Requests :
        (\E i \in 1..Len(rq[r].log) :
             rq[r].log[i].role \in {"mw", "handler"} /\ Overwrites(rq[r].log[i].fn)) =>
            /\ Calls(rq[r].log, {"post"}) = << >>
            /\ rq[r].pc # "panicked"

(***************************************************************************)
(* The Logging middleware among other middlewares.                         *)
(***************************************************************************)
LogMiddlewareLists == {<< "Logging" >>, << "auth" >>, << "timer" >>}
LogRouteSamples == {<< Str_id, "show" >>, << Str_static, "quiet" >>}

NextLog ==
    \/ \E mws \in LogMiddlewareLists : AddMiddleware(mws)
    \/ \E ph \in LogRouteSamples : Handle(ph[1], ph[2], << >>)
    \/ Listen
    \/ \E r \in Requests, p \in Paths : Resolve(r, "GET", p)
    \/ \E r \in Requests : RunMiddleware(r)
    \/ \E r \in Requests : RunHandler(r)
    \/ \E r \in Requests : RunPostHook(r)
    \/ \E r \in Requests : Return(r)

SpecLog == Init /\ [][NextLog]_vars

(***************************************************************************)
(* C28: the post-hook of the Logging middleware reports the last status    *)
(* code written through the writer of the Context by a function that ran   *)
(* after Logging, also when a later middleware aborted, and 200 when none  *)
(* wrote a status.                                                         *)
(***************************************************************************)
HookIndex(fn) == CASE fn = "logline1" -> 1 [] fn = "logline2" -> 2 [] OTHER -> 3

\* position in the log of the k-th call of Logging
RECURSIVE NthLogging(_, _, _)
NthLogging(log, k, from) ==
    IF log[from].fn = "Logging"
    THEN IF k = 1 THEN from ELSE NthLogging(log, k - 1, from + 1)
    ELSE NthLogging(log, k, from + 1)

\* the status codes written by the calls of the log from position a to b
Written(log, a, b) == Flatten([j \in 1..(b - a + 1) |-> log[a + j - 1].wrote])

HookMiddlewareLists == {<< "looper" >>, << "guard" >>, << "timer" >>}

NextHooks ==
    \/ \E mws \in HookMiddlewareLists : AddMiddleware(mws)
    \/ \E ph \in KeyRouteSamples : Handle(ph[1], ph[2], << >>)
    \/ Listen
    \/ \E r \in Requests, p \in Paths : Resolve(r, "GET", p)
    \/ \E r \in Requests : RunMiddleware(r)
    \/ \E r \in Requests : RunHandler(r)
    \/ \E r \in Requests : RunPostHook(r)
    \/ \E r \in Requests : Return(r)

SpecHooks ==
    Init /\ [][NextHooks]_vars /\ WF_vars(\E r \in Requests : RunPostHook(r))

(***************************************************************************)
(* C29: the post-hook phase terminates: the hooks run are the hooks that   *)
(* the middlewares and the handler registered, in order and once each, a   *)
(* hook registered by a post-hook is never run in the request, and a       *)
(* request in the phase leaves it.                                         *)
(***************************************************************************)
HooksRunAreThoseAtStart ==
    \A r \in Requests :
        LET log == rq[r].log IN
        /\ IsPrefix(Calls(log, {"post"}), Registered(log, {"mw", "handler"}))
        /\ rq[r].pc = "done" => Calls(log, {"post"}) = Registered(log, {"mw", "handler"})

C29_PostPhaseTerminates ==
    /\ []HooksRunAreThoseAtStart
    /\ \A r \in Requests : (rq[r].pc = "post") ~> (rq[r].pc \in {"done", "panicked"})

\* two hooks were run, each registered another hook, and the request is done
C29_Witness ==
    \E r \in Requests :
        /\ rq[r].pc = "done"
        /\ Calls(rq[r].log, {"post"}) = << "again", "again" >>
        /\ Registered(rq[r].log, {"post"}) = << "again", "again" >>

(***************************************************************************)
(* Patterns that use a parameter name twice, and routes with different     *)
(* parameter names in one list.                                            *)
(***************************************************************************)
Str_dup == << "/", ":", "i", "d", "/", "x", "/", ":", "i", "d" >>
Str_dupgroup == << "/", ":", "i", "d", "|", "(", "a", ")", "/", "x", "/", ":", "i", "d" >>

DupPatterns == {Str_dup, Str_dupgroup, Str_pair, Str_id}
DupPaths ==
    {<< "/", "1", "/", "x", "/", "2" >>, << "/", "a", "/", "x", "/", "7" >>,
     << "/", "1", "/", "2" >>, << "/", "7" >>}

NextDup ==
    \/ \E p \in DupPatterns : Handle(p, "home", << >>)
    \/ Listen
    \/ \E r \in Requests, p \in DupPaths : Resolve(r, "GET", p)
    \/ \E r \in Requests : RunHandler(r)
    \/ \E r \in Requests : Return(r)

SpecDup == Init /\ [][NextDup]_vars

\* the matched route of a resolved request
MatchedRoute(q) == Routes[q.method][q.index]

\* the last position of the name in the list of names
LastIndex(seq, x) == CHOOSE i \in 1..Len(seq) : seq[i] = x /\ \A k \in (i + 1)..Len(seq) : seq[k] # x

(***************************************************************************)
(* C31: when the pattern of the matched route uses a parameter name in     *)
(* more than one dynamic segment, the parameter map binds the name to the  *)
(* value of the right-most segment that carries it.                        *)
(***************************************************************************)
C31_RightmostSegmentWins ==
    \A r \in Requests :
        (Matched(rq[r]) /\ ~Distinct(MatchedRoute(rq[r]).Params)) =>
            LET q == rq[r]
                route == MatchedRoute(q)
                pos == DynamicPositions(Segments(handleCalls[CallOf(route)].pattern), 1)
                segs == Segments(q.path)
            IN \A name \in Elems(route.Params) :
                   /\ name \in DOMAIN q.Params
                   /\ q.Params[name] = segs[pos[LastIndex(route.Params, name)]]

OrderMiddlewareLists == {<< "timer" >>, << "auth" >>}
OrderPatterns == {Str_id, Str_static}

NextOrder ==
    \/ \E mws \in OrderMiddlewareLists : AddMiddleware(mws)
    \/ \E p \in OrderPatterns : addCalls = << >> /\ Handle(p, "home", << >>)
    \/ \E p \in OrderPatterns : addCalls # << >> /\ Handle(p, "show", << >>)
    \/ Listen
    \/ \E r \in Requests, p \in Paths : Resolve(r, "GET", p)
    \/ \E r \in Requests : RunMiddleware(r)
    \/ \E r \in Requests : RunHandler(r)
    \/ \E r \in Requests : RunPostHook(r)
    \/ \E r \in Requests : Return(r)

SpecOrder == Init /\ [][NextOrder]_vars

(***************************************************************************)
(* C33: the middlewares that run for a request are those of the global     *)
(* list, in the order of the AddMiddleware calls up to the first one that  *)
(* aborts, whether the matched route was registered before or after the    *)
(* AddMiddleware calls.                                                    *)
(***************************************************************************)
C33_MiddlewaresReadAtDispatch ==
    \A r \in Requests :
        (Matched(rq[r]) /\ rq[r].pc \in {"handler", "post", "done"}) =>
            LET ran == rq[r].log
                n == Len(Calls(ran, {"mw"}))
                added == Flatten(addCalls)
            IN /\ Calls(ran, {"mw"}) = SubSeq(added, 1, n)
               /\ n < Len(added) => n > 0 /\ ran[n].role = "mw" /\ ran[n].abort
               /\ \A i \in 1..(n - 1) : ~ran[i].abort

\* a route registered before every AddMiddleware call, and the two
\* middlewares added after it ran for a request to it
C33_Witness ==
    \E r \in Requests :
        /\ Matched(rq[r])
        /\ rq[r].pc = "done"
        /\ MatchedRoute(rq[r]).Handler = "home"
        /\ Calls(rq[r].log, {"mw", "handler"}) = << "timer", "timer", "home" >>

(***************************************************************************)
(* The CORS middleware and preflight requests.                             *)
(***************************************************************************)
CorsMiddlewareLists == {<< "CORS" >>, << "timer" >>}
CorsMethodLists == {<< "OPTIONS" >>, << "GET", "OPTIONS" >>}
CorsMethods == {"GET", "OPTIONS"}

NextCors ==
    \/ \E mws \in CorsMiddlewareLists : AddMiddleware(mws)
    \/ \E ph \in KeyRouteSamples, ms \in CorsMethodLists : Handle(ph[1], ph[2], ms)
    \/ Listen
    \/ \E r \in Requests, m \in CorsMethods, p \in Paths : Resolve(r, m, p)
    \/ \E r \in Requests : RunMiddleware(r)
    \/ \E r \in Requests : RunHandler(r)
    \/ \E r \in Requests : RunPostHook(r)
    \/ \E r \in Requests : Return(r)

SpecCors == Init /\ [][NextCors]_vars

(***************************************************************************)
(* C34: for an OPTIONS request that matches a route, the CORS middleware   *)
(* writes status 200 and leaves the abort flag unset: the middlewares      *)
(* after it and the handler of the matched route still run.                *)
(***************************************************************************)
C34_CORSDoesNotAbort ==
    \A r \in Requests :
        (Matched(rq[r]) /\ rq[r].method = "OPTIONS") =>
            LET q == rq[r]
                log == q.log
            IN /\ \A i \in 1..Len(log) :
                      log[i].fn = "CORS" => log[i].wrote = << 200 >> /\ ~log[i].abort
               /\ (\A i \in 1..Len(log) : ~log[i].abort) => Get(q, "Abort") = BoolV(FALSE)
               /\ q.pc \in {"handler", "post", "done"} => Calls(log, {"mw"}) = Middlewares
               /\ q.pc \in {"post", "done"} =>
                      Calls(log, {"handler"}) = << MatchedRoute(q).Handler >>

\* CORS answered the preflight with 200, then the next middleware, the
\* handler and the post-hook ran
C34_Witness ==
    \E r \in Requests :
        /\ rq[r].method = "OPTIONS"
        /\ rq[r].pc = "done"
        /\ Calls(rq[r].log, {"mw", "handler", "post"}) = << "CORS", "timer", "home", "report" >>
        /\ rq[r].log[1].wrote = << 200 >>
        /\ rq[r].status = 200

====
